---- MODULE Spec2Model ----
(***************************************************************************)
(* A model of the batch pipeline of scripts/: preprocess.py (the Table     *)
(* Merger), feature_selection.py (the Correlation Scorer),                 *)
(* community_detection.py (Edge Sparsifier, Bipartite Graph Builder and    *)
(* Community Partitioner) and network_build.py (the alternative build).    *)
(*                                                                         *)
(* Every script is a one-shot run: it reads files, transforms, writes      *)
(* files.  The directory data/ is the variable data, the directory         *)
(* outputs/ is the variable out, and each script has a position (its pc)   *)
(* and its local variables.  A table is represented by its ModelID index   *)
(* as a bag (ModelID -> number of rows carrying it): rows with the same    *)
(* identifier are not told apart and the row order is not represented.     *)
(***************************************************************************)
EXTENDS Integers, Sequences, FiniteSets, TLC

VARIABLES
    data,      \* data/: file label -> file state
    out,       \* outputs/: file name -> file content, or NoFile
    mpc,       \* preprocess.py: position of the run
    loaded,    \* preprocess.py: expr, mut_dmg, mut_hot, cnv after loading
    tables,    \* preprocess.py: labels of the collected tables, in order
    merged,    \* preprocess.py: index of the merged frame, or None
    merr,      \* preprocess.py: the exception that ended the run, or "none"
    cells,     \* data/: per table, the cells of one feature column, by row
    binarized, \* preprocess.py: that column after coercion and binarization
    cols,      \* data/: per table, the names of its feature columns
    merged_cols, \* preprocess.py: the column names of the merged frame
    spc,       \* feature_selection.py: position of the run
    corr,      \* feature_selection.py: B_z^T D_z / n, biomarker -> dependency -> r
    topk_b,    \* feature_selection.py: TOPK_PER_BIOMARKER of the run
    batch,     \* feature_selection.py: BATCH of the run
    bi,        \* feature_selection.py: number of biomarkers already scored
    rows_out,  \* feature_selection.py: the triples collected so far
    serr,      \* feature_selection.py: the exception that ended the run
    gpc,       \* community_detection.py, build: position of the run
    features_df, \* community_detection.py: the edge rows, in frame order
    valid_deps,  \* community_detection.py: the listed dependencies
    biomarkers,  \* community_detection.py: the biomarker node list
    B,         \* community_detection.py: the graph under construction
    topk_dep,  \* community_detection.py: TOPK_PER_DEP of the run
    topk_bm,   \* community_detection.py: TOPK_PER_BM of the run
    gerr,      \* community_detection.py, build: the exception that ended it
    ppc,       \* community_detection.py, partition: position of the run
    G,         \* community_detection.py: the graph loaded from the pickle
    partition_sets, \* community_detection.py: the list of communities
    partition, \* community_detection.py: the dict node -> community id
    perr,      \* community_detection.py, partition: the exception
    npc,       \* network_build.py: position of the run
    NB,        \* network_build.py: the graph B
    nb_partition, \* network_build.py: the dict partition
    nerr       \* network_build.py: the exception that ended the run

mvars == <<data, mpc, loaded, tables, merged, merr, cells, binarized, cols, merged_cols>>
svars == <<spc, corr, topk_b, batch, bi, rows_out, serr>>
gvars == <<gpc, features_df, valid_deps, biomarkers, B, topk_dep, topk_bm, gerr>>
pvars == <<ppc, G, partition_sets, partition, perr>>
nvars == <<npc, NB, nb_partition, nerr>>
vars == <<out, mvars, svars, gvars, pvars, nvars>>

\* what a run of one script leaves alone: the variables of the others
notMerger == <<svars, gvars, pvars, nvars>>
notScorer == <<mvars, gvars, pvars, nvars>>
notBuild == <<mvars, svars, pvars, nvars>>
notPartition == <<mvars, svars, gvars, nvars>>
notNet == <<mvars, svars, gvars, pvars>>

-----------------------------------------------------------------------------
(* Bounds of the model *)

\* the largest number of rows of an input table
MaxRows == 2

\* the ModelID values that occur in the input tables
ModelIDs == {"A", "B", "C"}

\* the largest top-K setting of a run
MaxTopK == 2

\* the largest BATCH of a run
MaxBatch == 2

\* biomarker_names and the columns of dep_z, in column order
Biomarkers == <<"b1", "b2">>
Dependencies == <<"d1", "d2", "d3", "d4">>

\* the correlations that occur in corr_block, in hundredths
CorrValues == {-85, 5, 20, 90}

\* the largest number of rows of a processed_features.csv that
\* community_detection.py is given
MaxEdges == 3

\* the names in the biomarker and the dependency column of such a file
\* ("x" occurs in both), and the names a dependency list can hold
BmNames == {"x", "y"}
DepNames == {"x", "z"}
DepLists == {{"x", "z"}, {"z", "w"}}

\* the names in sort order
SortedNames == <<"w", "x", "y", "z">>

\* the largest number of rows of a processed_features.csv that
\* network_build.py is given
MaxNetEdges == 2

\* the importance scores of such a file, as fractions n/d
ScoreValues == {[n |-> 0, d |-> 100], [n |-> 1, d |-> 100], [n |-> 100, d |-> 100]}

-----------------------------------------------------------------------------
(* Files *)

NoFile == [kind |-> "absent"]
None == [kind |-> "none"]

MERGED_FILE == "merged_biomarkers.csv"
FEATURES_FILE == "processed_features.csv"
DEPS_FILE == "dependencies.csv"
NET_FILE == "bipartite_network.gpickle"
COMM_FILE == "communities.csv"
DEPMAP_FILE == "dependency_map.csv"
ASSIGN_FILE == "community_assignments.csv"

OutFiles ==
    {MERGED_FILE, FEATURES_FILE, DEPS_FILE, NET_FILE, COMM_FILE, DEPMAP_FILE,
     ASSIGN_FILE}

EmptyOut == [f \in OutFiles |-> NoFile]

-----------------------------------------------------------------------------
(* Tables: a ModelID index is a bag of identifiers *)

RECURSIVE SumOver(_, _)
SumOver(f, S) ==
    IF S = {} THEN 0
    ELSE LET x == CHOOSE y \in S : TRUE IN f[x] + SumOver(f, S \ {x})

Range(seq) == {seq[k] : k \in 1..Len(seq)}

Abs(x) == IF x < 0 THEN -x ELSE x

\* df.shape[0]
NumRows(idx) == SumOver(idx, ModelIDs)

\* set(df.index)
IdSet(idx) == {i \in ModelIDs : idx[i] > 0}

EmptyIdx == [i \in ModelIDs |-> 0]

Indexes == {b \in [ModelIDs -> 0..MaxRows] : NumRows(b) <= MaxRows}

\* the states of an omics file of data/: absent, a table without a ModelID
\* column, or a table with a ModelID column and the rows idx
OmicsFileStates ==
    {[present |-> FALSE, hasModelID |-> FALSE, idx |-> EmptyIdx],
     [present |-> TRUE, hasModelID |-> FALSE, idx |-> EmptyIdx]}
    \cup {[present |-> TRUE, hasModelID |-> TRUE, idx |-> b] : b \in Indexes}

\* CRISPRGeneDependency.csv: absent, or present with or without ModelID
FullIdx == [i \in ModelIDs |-> 1]

DepFileStates ==
    {[present |-> FALSE, hasModelID |-> FALSE, idx |-> EmptyIdx],
     [present |-> TRUE, hasModelID |-> FALSE, idx |-> EmptyIdx],
     [present |-> TRUE, hasModelID |-> TRUE, idx |-> FullIdx]}

\* the order in which preprocess.py loads and collects its tables
OmicsLabels == <<"expr", "mut_dmg", "mut_hot", "cnv">>
OmicsSet == {OmicsLabels[k] : k \in 1..Len(OmicsLabels)}
CRISPR == "crispr"

-----------------------------------------------------------------------------
(* preprocess.py *)

\* set_index_on_modelid that keeps the default index instead of raising
set_index_no_raise(file) == [status |-> "ok", idx |-> file.idx]

\* set_index_on_modelid: the frame indexed on ModelID, or ValueError.  A
\* frame read by read_csv has an unnamed index, so a file without the
\* column has the identifier in neither place.
set_index_on_modelid(file) ==
    IF file.hasModelID
    THEN [status |-> "ok", idx |-> file.idx]
    ELSE [status |-> "ValueError", idx |-> EmptyIdx]

\* load_omics_table: None for a missing file, else the indexed frame
load_omics_table(file) ==
    IF ~file.present
    THEN [status |-> "none", idx |-> EmptyIdx]
    ELSE set_index_on_modelid(file)

\* a cell of a table file: empty, a text, or a number (in tenths)
NaN == [kind |-> "nan"]
Text == [kind |-> "text"]
Num(v) == [kind |-> "num", v |-> v]

NoCells == [l \in OmicsSet |-> <<>>]

\* coerce_numeric_frame on a column: a text becomes NaN, and a column that
\* is NaN throughout is dropped (it has no cell afterwards)
coerce_numeric_frame(col) ==
    LET numeric == [k \in 1..Len(col) |-> IF col[k] = Text THEN NaN ELSE col[k]]
    IN IF \A k \in 1..Len(numeric) : numeric[k] = NaN THEN <<>> ELSE numeric

\* df.fillna(0)
fillna(col) == [k \in 1..Len(col) |-> IF col[k] = NaN THEN Num(0) ELSE col[k]]

\* binarize_any_nonzero: (df.abs() > 0).astype(np.int8)
binarize_any_nonzero(col) ==
    [k \in 1..Len(col) |-> IF Abs(fillna(col)[k].v) > 0 THEN 1 ELSE 0]

\* threshold = -0.3, in tenths
CNV_THRESHOLD == -3

\* the comparison df <= threshold in place of df < threshold
binarize_cnv_loss_inclusive(col, threshold) ==
    [k \in 1..Len(col) |-> IF fillna(col)[k].v <= threshold THEN 1 ELSE 0]

\* binarize_cnv_loss: (df < threshold).astype(np.int8)
binarize_cnv_loss(col, threshold) ==
    [k \in 1..Len(col) |-> IF fillna(col)[k].v < threshold THEN 1 ELSE 0]

\* lines 132-167: what the script does to the column of table l
Processed(l, col) ==
    IF l = "expr" THEN coerce_numeric_frame(col)
    ELSE IF l = "cnv"
    THEN binarize_cnv_loss(coerce_numeric_frame(col), CNV_THRESHOLD)
    ELSE binarize_any_nonzero(coerce_numeric_frame(col))

\* lines 127-169: the four loads; the first ValueError ends the run
LoadTables ==
    /\ mpc = "start"
    /\ LET res == [l \in OmicsSet |-> load_omics_table(data[l])]
       IN IF \E l \in OmicsSet : res[l].status = "ValueError"
          THEN /\ mpc' = "error"
               /\ merr' = "ValueError"
               /\ UNCHANGED <<loaded, binarized>>
          ELSE /\ mpc' = "loaded"
               /\ loaded' = res
               /\ binarized' = [l \in OmicsSet |->
                                   IF res[l].status = "ok"
                                   THEN Processed(l, cells[l]) ELSE <<>>]
               /\ UNCHANGED merr
    /\ UNCHANGED <<data, out, tables, merged, cells, cols, merged_cols, notMerger>>

\* lines 172-186: only the frames that loaded and have at least one row
RECURSIVE Collect(_, _)
Collect(ld, k) ==
    IF k > Len(OmicsLabels) THEN <<>>
    ELSE LET l == OmicsLabels[k]
         IN (IF ld[l].status = "ok" /\ NumRows(ld[l].idx) > 0
             THEN <<l>> ELSE <<>>) \o Collect(ld, k + 1)

\* a left join in place of the inner join: keys of the left side survive
JoinLeft(left, right) ==
    [i \in ModelIDs |-> left[i] * (IF right[i] > 0 THEN right[i] ELSE 1)]

\* an outer join in place of the inner join: keys of either side survive
JoinOuter(left, right) ==
    [i \in ModelIDs |->
        IF left[i] > 0 /\ right[i] > 0 THEN left[i] * right[i]
        ELSE left[i] + right[i]]

\* DataFrame.join(how="inner") on the index: a key of both sides gives one
\* row per pair of rows carrying it
JoinInner(left, right) == [i \in ModelIDs |-> left[i] * right[i]]

\* lines 207-214: the merge loop
RECURSIVE MergeLoop(_, _, _, _)
MergeLoop(ld, tbls, k, acc) ==
    IF k > Len(tbls) THEN acc
    ELSE IF acc = None
         THEN MergeLoop(ld, tbls, k + 1, [kind |-> "frame", idx |-> ld[tbls[k]].idx])
         ELSE MergeLoop(ld, tbls, k + 1,
                        [kind |-> "frame", idx |-> JoinInner(acc.idx, ld[tbls[k]].idx)])

\* the name a colliding column of the table labelled label is given
Suffixed(c, label) == c \o "_" \o label

\* suffix_overlaps: the columns of right, those also in left renamed
suffix_overlaps(left, right, right_suffix) ==
    [k \in 1..Len(right) |->
        IF right[k] \in Range(left) THEN Suffixed(right[k], right_suffix)
        ELSE right[k]]

\* DataFrame.join without suffixes raises ValueError when a column name
\* is on both sides
JoinOverlaps(left, right) == Range(left) \cap Range(right) # {}

\* lines 207-214, the columns: those of the first table, then those of
\* every later table after suffix_overlaps; the first join that overlaps
\* ends the loop
RECURSIVE MergeColumns(_, _, _, _)
MergeColumns(cl, tbls, k, acc) ==
    IF k > Len(tbls) THEN [status |-> "ok", cols |-> acc]
    ELSE IF k = 1 THEN MergeColumns(cl, tbls, 2, cl[tbls[1]])
    ELSE LET df_suffixed == suffix_overlaps(acc, cl[tbls[k]], tbls[k])
         IN IF JoinOverlaps(acc, df_suffixed)
            THEN [status |-> "ValueError", cols |-> acc]
            ELSE MergeColumns(cl, tbls, k + 1, acc \o df_suffixed)

\* the empty-result check without the row count
IsEmptyResultNoRowCheck(m) == m = None

\* line 221: merged is None or merged.shape[0] == 0
IsEmptyResult(m) == m = None \/ NumRows(m.idx) = 0

\* lines 172-230: collect, merge, and the two RuntimeErrors; a join that
\* finds a column name on both sides raises ValueError
MergeTables ==
    /\ mpc = "loaded"
    /\ LET tbls == Collect(loaded, 1)
           m == MergeLoop(loaded, tbls, 1, None)
           mc == MergeColumns(cols, tbls, 1, <<>>)
       IN /\ tables' = tbls
          /\ IF tbls = <<>>
             THEN /\ mpc' = "error"
                  /\ merr' = "RuntimeError"
                  /\ UNCHANGED <<merged, merged_cols>>
             ELSE IF mc.status = "ValueError"
             THEN /\ mpc' = "error"
                  /\ merr' = "ValueError"
                  /\ merged_cols' = mc.cols
                  /\ UNCHANGED merged
             ELSE /\ merged' = m
                  /\ merged_cols' = mc.cols
                  /\ IF IsEmptyResult(m)
                     THEN mpc' = "error" /\ merr' = "RuntimeError"
                     ELSE mpc' = "merged" /\ UNCHANGED merr
    /\ UNCHANGED <<data, out, loaded, cells, binarized, cols, notMerger>>

\* line 242: merged.to_csv(OUT_FILE)
SaveMerged ==
    /\ mpc = "merged"
    /\ out' = [out EXCEPT ![MERGED_FILE] = [kind |-> "matrix", idx |-> merged.idx]]
    /\ mpc' = "saved_merged"
    /\ UNCHANGED <<data, loaded, tables, merged, merr, cells, binarized, cols, merged_cols, notMerger>>

\* line 258: merged.to_csv(processed_features_path)
SaveProcessedFeatures ==
    /\ mpc = "saved_merged"
    /\ out' = [out EXCEPT ![FEATURES_FILE] = [kind |-> "matrix", idx |-> merged.idx]]
    /\ mpc' = "saved_features"
    /\ UNCHANGED <<data, loaded, tables, merged, merr, cells, binarized, cols, merged_cols, notMerger>>

\* lines 265-280: the dependency export; a missing file or a missing
\* ModelID column is a warning
ExportDependencies ==
    /\ mpc = "saved_features"
    /\ IF data[CRISPR].present
       THEN out' = [out EXCEPT ![DEPS_FILE] =
                       [kind |-> "deps", hasModelID |-> data[CRISPR].hasModelID,
                        idx |-> data[CRISPR].idx]]
       ELSE UNCHANGED out
    /\ mpc' = "done"
    /\ UNCHANGED <<data, loaded, tables, merged, merr, cells, binarized, cols, merged_cols, notMerger>>

-----------------------------------------------------------------------------
(* feature_selection.py *)

BiomarkerSet == {Biomarkers[k] : k \in 1..Len(Biomarkers)}
DependencySet == {Dependencies[k] : k \in 1..Len(Dependencies)}

\* MIN_ABS_CORR = 0.15, in hundredths
MIN_ABS_CORR == 15

\* line 77: s = corr_block.loc[b].abs()
AbsSeries(row) == [d \in DOMAIN row |-> Abs(row[d])]

Remove(seq, k) == SubSeq(seq, 1, k - 1) \o SubSeq(seq, k + 1, Len(seq))

\* Series.nsmallest in place of nlargest
RECURSIVE nsmallest(_, _, _)
nsmallest(s, cand, n) ==
    IF n = 0 \/ cand = <<>> THEN <<>>
    ELSE LET k == CHOOSE k \in 1..Len(cand) :
                      /\ \A j \in 1..Len(cand) : s[cand[k]] <= s[cand[j]]
                      /\ \A j \in 1..(k - 1) : s[cand[k]] < s[cand[j]]
         IN <<cand[k]>> \o nsmallest(s, Remove(cand, k), n - 1)

\* Series.nlargest(n), keep="first": the labels of the n largest values in
\* descending order, equal values in their order of appearance
RECURSIVE nlargest(_, _, _)
nlargest(s, cand, n) ==
    IF n = 0 \/ cand = <<>> THEN <<>>
    ELSE LET k == CHOOSE k \in 1..Len(cand) :
                      /\ \A j \in 1..Len(cand) : s[cand[j]] <= s[cand[k]]
                      /\ \A j \in 1..(k - 1) : s[cand[j]] < s[cand[k]]
         IN <<cand[k]>> \o nlargest(s, Remove(cand, k), n - 1)

\* the score taken from corr_block instead of from the series s
RecordedSigned(row, s, d) == row[d]

\* lines 80-81: the score of top.items(), a value of the series s
RecordedScore(row, s, d) == s[d]

\* lines 77-81: the triples of one biomarker
BiomarkerRows(b, row, k) ==
    LET s == AbsSeries(row)
        top == nlargest(s, Dependencies, k)
        kept == SelectSeq(top, LAMBDA d : s[d] >= MIN_ABS_CORR)
    IN [j \in 1..Len(kept) |->
           [biomarker |-> b, dependency |-> kept[j],
            score |-> RecordedScore(row, s, kept[j])]]

\* the ModelID column of a file of outputs/ as feature_selection.py sees
\* it: the column itself, or "Unnamed: 0" (the row numbers) renamed
HasModelIDColumn(file) == file.kind \in {"matrix", "deps"}

ModelIDColumn(file) ==
    IF file.kind = "matrix" THEN IdSet(file.idx)
    ELSE IF file.kind = "deps" /\ file.hasModelID THEN IdSet(file.idx)
    ELSE {}

\* lines 14-46: the loads and their errors
ScorerLoad ==
    /\ spc = "start"
    /\ IF out[MERGED_FILE] = NoFile \/ out[DEPS_FILE] = NoFile
       THEN spc' = "error" /\ serr' = "FileNotFoundError"
       ELSE IF ~HasModelIDColumn(out[MERGED_FILE]) \/ ~HasModelIDColumn(out[DEPS_FILE])
       THEN spc' = "error" /\ serr' = "ValueError"
       ELSE IF ModelIDColumn(out[MERGED_FILE]) \cap ModelIDColumn(out[DEPS_FILE]) = {}
       THEN spc' = "error" /\ serr' = "ValueError"
       ELSE spc' = "scoring" /\ UNCHANGED serr
    /\ UNCHANGED <<out, corr, topk_b, batch, bi, rows_out, notScorer>>

\* line 74: cols = biomarker_names[i:i+BATCH]
BatchCols(i, n) ==
    SubSeq(Biomarkers, i + 1,
           IF i + n <= Len(Biomarkers) THEN i + n ELSE Len(Biomarkers))

\* line 75: corr_block = (bio_z[cols].T @ dep_z) / n, the rows of the
\* correlation matrix for the columns bcols of the batch
corr_block(bcols) == [b \in Range(bcols) |-> corr[b]]

\* lines 76-81: the triples of the biomarkers of one batch, in column order
RECURSIVE BatchRows(_, _, _)
BatchRows(bcols, block, k) ==
    IF bcols = <<>> THEN <<>>
    ELSE BiomarkerRows(Head(bcols), block[Head(bcols)], k)
             \o BatchRows(Tail(bcols), block, k)

\* lines 73-81: one batch of the correlation loop
ScoreBatch ==
    /\ spc = "scoring"
    /\ bi < Len(Biomarkers)
    /\ LET bcols == BatchCols(bi, batch)
       IN /\ rows_out' = rows_out \o BatchRows(bcols, corr_block(bcols), topk_b)
          /\ bi' = bi + Len(bcols)
    /\ UNCHANGED <<out, spc, corr, topk_b, batch, serr, notScorer>>

\* x.iloc[0] in place of x.max()
GroupFirst(rows, d) ==
    LET grp == {k \in 1..Len(rows) : rows[k].dependency = d}
    IN rows[CHOOSE k \in grp : \A j \in grp : k <= j].score

\* x.min() in place of x.max()
GroupMin(rows, d) ==
    LET grp == {k \in 1..Len(rows) : rows[k].dependency = d}
    IN rows[CHOOSE k \in grp : \A j \in grp : rows[k].score <= rows[j].score].score

\* x.max() of the group of a dependency
GroupMax(rows, d) ==
    LET grp == {k \in 1..Len(rows) : rows[k].dependency = d}
    IN rows[CHOOSE k \in grp : \A j \in grp : rows[j].score <= rows[k].score].score

\* lines 86-90: x / (x.max() if x.max() > 0 else 1.0) per dependency; the
\* quotient is kept as the fraction n/d
Renormalize(rows) ==
    [k \in 1..Len(rows) |->
        LET mx == GroupMax(rows, rows[k].dependency)
        IN [biomarker |-> rows[k].biomarker, dependency |-> rows[k].dependency,
            score |-> IF mx > 0 THEN [n |-> rows[k].score, d |-> mx]
                      ELSE [n |-> rows[k].score, d |-> 100]]]

\* lines 86-93: renormalize and write processed_features.csv
ScorerWrite ==
    /\ spc = "scoring"
    /\ bi = Len(Biomarkers)
    /\ out' = [out EXCEPT ![FEATURES_FILE] =
                  [kind |-> "edges", rows |-> Renormalize(rows_out)]]
    /\ spc' = "done"
    /\ UNCHANGED <<corr, topk_b, batch, bi, rows_out, serr, notScorer>>

ScorerNext ==
    \/ ScorerLoad
    \/ ScoreBatch
    \/ ScorerWrite

ZeroCorr == [b \in BiomarkerSet |-> [d \in DependencySet |-> 0]]

ScorerOff ==
    /\ spc = "off"
    /\ corr = ZeroCorr
    /\ topk_b = 1
    /\ batch = 1
    /\ bi = 0
    /\ rows_out = <<>>
    /\ serr = "none"

-----------------------------------------------------------------------------
(* community_detection.py: Edge Sparsifier and Bipartite Graph Builder *)

\* fractions n/d with d > 0
RLess(a, b) == a.n * b.d < b.n * a.d
RLeq(a, b) == a.n * b.d <= b.n * a.d
REq(a, b) == a.n * b.d = b.n * a.d
RPositive(a) == a.n > 0

\* EDGE_MIN = 0.015
EDGE_MIN == [n |-> 15, d |-> 1000]

Rank(name) == CHOOSE k \in 1..Len(SortedNames) : SortedNames[k] = name

EmptyGraph == [bipartite |-> <<>>, edges |-> {}]

Nodes(gr) == DOMAIN gr.bipartite

\* add_nodes_from that declares no node
add_no_nodes(gr, names, cls) == gr

\* Graph.add_nodes_from(names, bipartite=cls): a new node gets the
\* attribute, a node already there has it overwritten
add_nodes_from(gr, names, cls) ==
    [gr EXCEPT !.bipartite =
        [n \in Nodes(gr) \cup names |-> IF n \in names THEN cls ELSE gr.bipartite[n]]]

\* Graph.add_edge(u, v, weight=w): the end nodes are created when missing
\* (without attribute), and the weight of an edge already there is replaced
add_edge(gr, u, v, w) ==
    [bipartite |-> [n \in Nodes(gr) \cup {u, v} |->
                       IF n \in Nodes(gr) THEN gr.bipartite[n] ELSE "none"],
     edges |-> {e \in gr.edges : e.ends # {u, v}}
                 \cup {[ends |-> {u, v}, weight |-> w]}]

\* the dependency column of dependencies.csv: the column of that name, or
\* else the first column (of the Merger's export: ModelID, or the row
\* numbers of the default index)
DependencyColumn(file) ==
    IF file.kind = "deplist" THEN file.deps
    ELSE IF file.hasModelID THEN IdSet(file.idx)
    ELSE {"0"}

\* line 39: the three required columns
HasEdgeColumns(file) == file.kind = "edges"

\* line 53 without the filter
AllRows(rows) == rows

\* line 53: importance_score > 0
PositiveRows(rows) == SelectSeq(rows, LAMBDA r : RPositive(r.score))

\* the values of a column in order of first appearance: Series.unique()
RECURSIVE Unique(_, _)
Unique(rows, k) ==
    IF k > Len(rows) THEN <<>>
    ELSE (IF \E j \in 1..(k - 1) : rows[j].biomarker = rows[k].biomarker
          THEN <<>> ELSE <<rows[k].biomarker>>) \o Unique(rows, k + 1)

\* the loads without the check of lines 38-43: a file without the three
\* columns is taken as a frame without rows
BuildLoadUnchecked ==
    /\ gpc = "start"
    /\ out[FEATURES_FILE] # NoFile
    /\ out[DEPS_FILE] # NoFile
    /\ LET vd == DependencyColumn(out[DEPS_FILE])
           rows == IF out[FEATURES_FILE].kind = "edges"
                   THEN out[FEATURES_FILE].rows ELSE <<>>
           df == PositiveRows(SelectSeq(rows, LAMBDA r : r.dependency \in vd))
           bms == Unique(df, 1)
       IN /\ valid_deps' = vd
          /\ features_df' = df
          /\ biomarkers' = bms
          /\ B' = add_nodes_from(
                     add_nodes_from(EmptyGraph, Range(bms), "biomarker"),
                     vd, "dependency")
          /\ gpc' = "nodes"
    /\ UNCHANGED <<out, gerr, topk_dep, topk_bm, notBuild>>

\* lines 27-66: load, validate, filter, and insert the nodes
BuildLoad ==
    /\ gpc = "start"
    /\ IF out[FEATURES_FILE] = NoFile \/ out[DEPS_FILE] = NoFile
       THEN /\ gpc' = "error" /\ gerr' = "FileNotFoundError"
            /\ UNCHANGED <<features_df, valid_deps, biomarkers, B>>
       ELSE IF ~HasEdgeColumns(out[FEATURES_FILE])
       THEN /\ gpc' = "error" /\ gerr' = "ValueError"
            /\ UNCHANGED <<features_df, valid_deps, biomarkers, B>>
       ELSE LET vd == DependencyColumn(out[DEPS_FILE])
                listed == SelectSeq(out[FEATURES_FILE].rows,
                                    LAMBDA r : r.dependency \in vd)
                df == PositiveRows(listed)
                bms == Unique(df, 1)
            IN /\ valid_deps' = vd
               /\ features_df' = df
               /\ biomarkers' = bms
               /\ B' = add_nodes_from(
                          add_nodes_from(EmptyGraph, Range(bms), "biomarker"),
                          vd, "dependency")
               /\ gpc' = "nodes" /\ UNCHANGED gerr
    /\ UNCHANGED <<out, topk_dep, topk_bm, notBuild>>

\* x.min() in place of x.max(), for fractions
GroupMinScore(rows, d) ==
    LET grp == {k \in 1..Len(rows) : rows[k].dependency = d}
    IN rows[CHOOSE k \in grp : \A j \in grp : RLeq(rows[k].score, rows[j].score)].score

\* x.max() of the group of a dependency, for fractions
GroupMaxScore(rows, d) ==
    LET grp == {k \in 1..Len(rows) : rows[k].dependency = d}
    IN rows[CHOOSE k \in grp : \A j \in grp : RLeq(rows[j].score, rows[k].score)].score

\* lines 70-72: x / x.max() per dependency
NormalizePerDependency(rows) ==
    [k \in 1..Len(rows) |->
        LET mx == GroupMaxScore(rows, rows[k].dependency)
        IN [rows[k] EXCEPT !.score = [n |-> rows[k].score.n * mx.d,
                                      d |-> rows[k].score.d * mx.n]]]

\* DataFrame.sort_values, a stable sort: the positions of rows in sorted
\* order, where before[i][j] says that row i sorts strictly before row j
RECURSIVE StableOrder(_, _)
StableOrder(rest, before) ==
    IF rest = <<>> THEN <<>>
    ELSE LET k == CHOOSE k \in 1..Len(rest) :
                      /\ \A j \in 1..Len(rest) : ~before[rest[j]][rest[k]]
                      /\ \A j \in 1..(k - 1) :
                            \E i \in 1..Len(rest) : before[rest[i]][rest[j]]
         IN <<rest[k]>> \o StableOrder(Remove(rest, k), before)

SortRows(rows, before) ==
    LET ord == StableOrder([k \in 1..Len(rows) |-> k], before)
    IN [k \in 1..Len(rows) |-> rows[ord[k]]]

\* sort_values(["dependency", "importance_score"], ascending=[True, True])
SortByDependencyAscending(rows) ==
    SortRows(rows,
        [i \in 1..Len(rows) |-> [j \in 1..Len(rows) |->
            \/ Rank(rows[i].dependency) < Rank(rows[j].dependency)
            \/ /\ rows[i].dependency = rows[j].dependency
               /\ RLess(rows[i].score, rows[j].score)]])

\* sort_values(["dependency", "importance_score"], ascending=[True, False])
SortByDependency(rows) ==
    SortRows(rows,
        [i \in 1..Len(rows) |-> [j \in 1..Len(rows) |->
            \/ Rank(rows[i].dependency) < Rank(rows[j].dependency)
            \/ /\ rows[i].dependency = rows[j].dependency
               /\ RLess(rows[j].score, rows[i].score)]])

\* sort_values(["biomarker", "importance_score"], ascending=[True, False])
SortByBiomarker(rows) ==
    SortRows(rows,
        [i \in 1..Len(rows) |-> [j \in 1..Len(rows) |->
            \/ Rank(rows[i].biomarker) < Rank(rows[j].biomarker)
            \/ /\ rows[i].biomarker = rows[j].biomarker
               /\ RLess(rows[j].score, rows[i].score)]])

\* groupby("dependency").head(n): the first n rows of every group, in
\* frame order
HeadPerDependency(rows, n) ==
    LET keep == {k \in 1..Len(rows) :
                    Cardinality({j \in 1..(k - 1) :
                        rows[j].dependency = rows[k].dependency}) < n}
    IN SelectSeq([k \in 1..Len(rows) |-> [pos |-> k, row |-> rows[k]]],
                 LAMBDA p : p.pos \in keep)

\* groupby("biomarker").head(n)
HeadPerBiomarker(rows, n) ==
    LET keep == {k \in 1..Len(rows) :
                    Cardinality({j \in 1..(k - 1) :
                        rows[j].biomarker = rows[k].biomarker}) < n}
    IN SelectSeq([k \in 1..Len(rows) |-> [pos |-> k, row |-> rows[k]]],
                 LAMBDA p : p.pos \in keep)

Rows(ps) == [k \in 1..Len(ps) |-> ps[k].row]

\* the dependency-side truncation left out
NoTopKPerDependency(rows, n) == rows

\* lines 83-87: Top-K per dependency
TopKPerDependency(rows, n) == Rows(HeadPerDependency(SortByDependency(rows), n))

\* lines 90-94: Top-K per biomarker
TopKPerBiomarker(rows, n) == Rows(HeadPerBiomarker(SortByBiomarker(rows), n))

\* line 80: importance_score >= EDGE_MIN
MinWeightRows(rows) == SelectSeq(rows, LAMBDA r : RLeq(EDGE_MIN, r.score))

\* the two truncations in the other order
SparsifySwapped(rows, kd, kb) == TopKPerDependency(TopKPerBiomarker(rows, kb), kd)

\* lines 83-94: Top-K per dependency, then Top-K per biomarker
Sparsify(rows, kd, kb) == TopKPerBiomarker(TopKPerDependency(rows, kd), kb)

\* lines 70-94: normalize, drop the small weights, truncate both ways
BuildSparsify ==
    /\ gpc = "nodes"
    /\ features_df' =
           Sparsify(MinWeightRows(NormalizePerDependency(features_df)),
                    topk_dep, topk_bm)
    /\ gpc' = "sparsified"
    /\ UNCHANGED <<out, valid_deps, biomarkers, B, topk_dep, topk_bm, gerr, notBuild>>

\* lines 100-105: the edge loop
RECURSIVE AddEdges(_, _, _, _, _)
AddEdges(gr, rows, k, bms, vd) ==
    IF k > Len(rows) THEN gr
    ELSE AddEdges(
             IF rows[k].biomarker \in bms /\ rows[k].dependency \in vd
             THEN add_edge(gr, rows[k].biomarker, rows[k].dependency, rows[k].score)
             ELSE gr,
             rows, k + 1, bms, vd)

BuildEdges ==
    /\ gpc = "sparsified"
    /\ B' = AddEdges(B, features_df, 1, Range(biomarkers), valid_deps)
    /\ gpc' = "edges"
    /\ UNCHANGED <<out, features_df, valid_deps, biomarkers, topk_dep, topk_bm, gerr, notBuild>>

\* lines 113-115: pickle.dump(B)
BuildSave ==
    /\ gpc = "edges"
    /\ out' = [out EXCEPT ![NET_FILE] = [kind |-> "graph", graph |-> B]]
    /\ gpc' = "done"
    /\ UNCHANGED <<features_df, valid_deps, biomarkers, B, topk_dep, topk_bm, gerr, notBuild>>

BuildNext ==
    \/ BuildLoad
    \/ BuildSparsify
    \/ BuildEdges
    \/ BuildSave

BuildOff ==
    /\ gpc = "off"
    /\ features_df = <<>>
    /\ valid_deps = {}
    /\ biomarkers = <<>>
    /\ B = EmptyGraph
    /\ topk_dep = 1
    /\ topk_bm = 1
    /\ gerr = "none"

-----------------------------------------------------------------------------
(* community_detection.py: Community Partitioner *)

\* the partitions of a set of nodes into non-empty communities
Partitions(S) ==
    {P \in SUBSET (SUBSET S \ {{}}) :
        /\ UNION P = S
        /\ \A X, Y \in P : X # Y => X \cap Y = {}}

\* greedy_modularity_communities(G, weight="weight"): a list of disjoint
\* communities that cover the nodes of G, the largest first.  Which
\* partition it is, is the library's choice; every one is allowed here.
CommunityListsOf ==
    [ns \in SUBSET Range(SortedNames) |->
        UNION {{l \in [1..Cardinality(P) -> P] :
                   /\ \A i, j \in 1..Cardinality(P) : i # j => l[i] # l[j]
                   /\ \A i \in 1..(Cardinality(P) - 1) :
                         Cardinality(l[i]) >= Cardinality(l[i + 1])}
               : P \in Partitions(ns)}]

CommunityLists(graph) == CommunityListsOf[Nodes(graph)]

\* the dict comprehension restricted to communities of two or more nodes
PartitionDictNoSingletons(sets) ==
    LET big == {k \in 1..Len(sets) : Cardinality(sets[k]) > 1}
    IN [n \in UNION {sets[k] : k \in big} |->
           (CHOOSE k \in big : n \in sets[k] /\ \A j \in big : n \in sets[j] => j <= k) - 1]

\* line 159: {node: i for i, community in enumerate(partition_sets)
\*            for node in community}; a later entry replaces an earlier one
PartitionDict(sets) ==
    [n \in UNION Range(sets) |->
        (CHOOSE k \in 1..Len(sets) :
            n \in sets[k] /\ \A j \in 1..Len(sets) : n \in sets[j] => j <= k) - 1]

\* the keys of a dict as a list (the order among them is not represented:
\* they are listed in sort order)
RECURSIVE KeyList(_, _)
KeyList(keys, k) ==
    IF k > Len(SortedNames) THEN <<>>
    ELSE (IF SortedNames[k] \in keys THEN <<SortedNames[k]>> ELSE <<>>)
         \o KeyList(keys, k + 1)

\* line 170: DataFrame({"node": list(partition.keys()),
\*                      "community": list(partition.values())})
CommunitiesFrame(dict) ==
    LET keys == KeyList(DOMAIN dict, 1)
    IN [k \in 1..Len(keys) |-> [node |-> keys[k], community |-> dict[keys[k]]]]

\* lines 136-147: load the pickle; a missing file and an empty graph raise
PartitionLoad ==
    /\ ppc = "start"
    /\ IF out[NET_FILE] = NoFile
       THEN ppc' = "error" /\ perr' = "FileNotFoundError" /\ UNCHANGED G
       ELSE IF out[NET_FILE].kind # "graph" \/ Nodes(out[NET_FILE].graph) = {}
       THEN ppc' = "error" /\ perr' = "ValueError" /\ UNCHANGED G
       ELSE ppc' = "loaded" /\ G' = out[NET_FILE].graph /\ UNCHANGED perr
    /\ UNCHANGED <<out, partition_sets, partition, notPartition>>

\* lines 156-159: detect the communities and number them
PartitionDetect ==
    /\ ppc = "loaded"
    /\ \E sets \in CommunityLists(G) :
          /\ partition_sets' = sets
          /\ partition' = PartitionDict(sets)
    /\ ppc' = "detected"
    /\ UNCHANGED <<out, G, perr, notPartition>>

\* lines 170-172: communities.csv
PartitionSave ==
    /\ ppc = "detected"
    /\ out' = [out EXCEPT ![COMM_FILE] =
                  [kind |-> "communities", rows |-> CommunitiesFrame(partition)]]
    /\ ppc' = "done"
    /\ UNCHANGED <<G, partition_sets, partition, perr, notPartition>>

PartitionNext ==
    \/ PartitionLoad
    \/ PartitionDetect
    \/ PartitionSave

\* the script carried on after an exception of the build part
ContinueAfterFailure ==
    /\ gpc \in {"done", "error"}
    /\ ppc = "off"
    /\ ppc' = "start"
    /\ UNCHANGED <<out, G, partition_sets, partition, perr, notPartition>>

\* lines 125-133: the script runs on from the build part, which has closed
\* the pickle, into the partition part; an exception of the build part has
\* ended the process
ContinueToPartition ==
    /\ gpc = "done"
    /\ ppc = "off"
    /\ ppc' = "start"
    /\ UNCHANGED <<out, G, partition_sets, partition, perr, notPartition>>

PartitionOff ==
    /\ ppc = "off"
    /\ G = EmptyGraph
    /\ partition_sets = <<>>
    /\ partition = <<>>
    /\ perr = "none"

-----------------------------------------------------------------------------
(* network_build.py: the alternative build and its Louvain partition *)

\* the number of rows kept on line 51
EDGE_LIMIT == 500000

\* lines 16-25: the ACH_ID -> Gene remapping of the dependency column; a
\* missing file, or one without the two columns, maps nothing
RemapDependency(rows, mapfile) ==
    IF mapfile = NoFile \/ ~mapfile.hasColumns THEN rows
    ELSE [k \in 1..Len(rows) |->
             IF rows[k].dependency \in DOMAIN mapfile.map
             THEN [rows[k] EXCEPT !.dependency = mapfile.map[rows[k].dependency]]
             ELSE rows[k]]

\* line 51: sort_values(by="importance_score", ascending=False)
SortByScore(rows) ==
    SortRows(rows,
        [i \in 1..Len(rows) |-> [j \in 1..Len(rows) |->
            RLess(rows[j].score, rows[i].score)]])

HeadRows(rows, n) == SubSeq(rows, 1, IF Len(rows) <= n THEN Len(rows) ELSE n)

\* line 54: B.add_weighted_edges_from(edges)
RECURSIVE add_weighted_edges_from(_, _, _)
add_weighted_edges_from(gr, rows, k) ==
    IF k > Len(rows) THEN gr
    ELSE add_weighted_edges_from(
             add_edge(gr, rows[k].biomarker, rows[k].dependency, rows[k].score),
             rows, k + 1)

\* lines 11-55: load, remap, insert the nodes and the edges
NetBuild ==
    /\ npc = "start"
    /\ IF out[FEATURES_FILE] = NoFile \/ out[DEPS_FILE] = NoFile
       THEN npc' = "error" /\ nerr' = "FileNotFoundError" /\ UNCHANGED NB
       ELSE IF ~HasEdgeColumns(out[FEATURES_FILE])
       THEN npc' = "error" /\ nerr' = "KeyError" /\ UNCHANGED NB
       ELSE LET df == RemapDependency(out[FEATURES_FILE].rows, out[DEPMAP_FILE])
                deps == DependencyColumn(out[DEPS_FILE])
                bms == Range(Unique(df, 1))
                nodes == add_nodes_from(
                             add_nodes_from(EmptyGraph, bms, "biomarker"),
                             deps, "dependency")
            IN /\ NB' = add_weighted_edges_from(
                            nodes, HeadRows(SortByScore(df), EDGE_LIMIT), 1)
               /\ npc' = "built" /\ UNCHANGED nerr
    /\ UNCHANGED <<out, nb_partition, notNet>>

\* lines 64-65: pickle.dump(B)
NetSaveGraph ==
    /\ npc = "built"
    /\ out' = [out EXCEPT ![NET_FILE] = [kind |-> "graph", graph |-> NB]]
    /\ npc' = "saved"
    /\ UNCHANGED <<NB, nb_partition, nerr, notNet>>

\* Graph.size(weight="weight") = 0, for weights that are not negative
NoLinks(gr) == \A e \in gr.edges : e.weight.n = 0

\* community.best_partition(B): a dict that gives every node of B the
\* number of its community, the communities numbered from 0.  Which
\* partition and which numbering, is the library's choice.
NumberedPartitionsOf ==
    [ns \in SUBSET Range(SortedNames) |->
        UNION {{l \in [1..Cardinality(P) -> P] :
                   \A i, j \in 1..Cardinality(P) : i # j => l[i] # l[j]}
               : P \in Partitions(ns)}]

BestPartitions(gr) == {PartitionDict(l) : l \in NumberedPartitionsOf[Nodes(gr)]}

\* lines 71-72: best_partition, and modularity, which raises ValueError
\* for a graph without links
NetPartition ==
    /\ npc = "saved"
    /\ IF NoLinks(NB)
       THEN npc' = "error" /\ nerr' = "ValueError" /\ UNCHANGED nb_partition
       ELSE /\ \E part \in BestPartitions(NB) : nb_partition' = part
            /\ npc' = "partitioned" /\ UNCHANGED nerr
    /\ UNCHANGED <<out, NB, notNet>>

\* lines 76-78: community_assignments.csv, one row per item of the dict
NetSaveAssignments ==
    /\ npc = "partitioned"
    /\ out' = [out EXCEPT ![ASSIGN_FILE] =
                  [kind |-> "communities", rows |-> CommunitiesFrame(nb_partition)]]
    /\ npc' = "done"
    /\ UNCHANGED <<NB, nb_partition, nerr, notNet>>

NetNext ==
    \/ NetBuild
    \/ NetSaveGraph
    \/ NetPartition
    \/ NetSaveAssignments

NetOff ==
    /\ npc = "off"
    /\ NB = EmptyGraph
    /\ nb_partition = <<>>
    /\ nerr = "none"

-----------------------------------------------------------------------------
(* Specifications *)

MergerNext ==
    \/ LoadTables
    \/ MergeTables
    \/ SaveMerged
    \/ SaveProcessedFeatures
    \/ ExportDependencies

MergerStart ==
    /\ mpc = "start"
    /\ loaded = [l \in OmicsSet |-> [status |-> "none", idx |-> EmptyIdx]]
    /\ tables = <<>>
    /\ merged = None
    /\ merr = "none"
    /\ binarized = NoCells
    /\ merged_cols = <<>>

\* a table file with rows: a feature column of zeros, one cell per row
ZeroColumn(file) ==
    IF file.present /\ file.hasModelID
    THEN [k \in 1..NumRows(file.idx) |-> Num(0)]
    ELSE <<>>

\* the feature column every omics table of DepMap has: a gene
GeneColumn(file) == IF file.present /\ file.hasModelID THEN <<"g">> ELSE <<>>

MergerOff ==
    /\ data = [l \in OmicsSet \cup {CRISPR} |->
                  [present |-> FALSE, hasModelID |-> FALSE, idx |-> EmptyIdx]]
    /\ mpc = "off"
    /\ loaded = [l \in OmicsSet |-> [status |-> "none", idx |-> EmptyIdx]]
    /\ tables = <<>>
    /\ merged = None
    /\ merr = "none"
    /\ cells = NoCells
    /\ binarized = NoCells
    /\ cols = NoCells
    /\ merged_cols = <<>>

\* data/ with any tables, looked at by their ModelID column alone: the
\* feature columns are left out here (SpecBinarize and SpecColumns have
\* them)
InitMerger ==
    /\ data \in [OmicsSet \cup {CRISPR} -> OmicsFileStates \cup DepFileStates]
    /\ \A l \in OmicsSet : data[l] \in OmicsFileStates
    /\ data[CRISPR] \in DepFileStates
    /\ cells = NoCells
    /\ cols = NoCells
    /\ out = EmptyOut
    /\ MergerStart
    /\ ScorerOff
    /\ BuildOff
    /\ PartitionOff
    /\ NetOff

\* outputs/ with the files feature_selection.py can find in it
InitScorer ==
    /\ MergerOff
    /\ BuildOff
    /\ PartitionOff
    /\ NetOff
    /\ \E mf \in {NoFile, [kind |-> "matrix", idx |-> FullIdx]},
          df \in {NoFile,
                  [kind |-> "deps", hasModelID |-> TRUE, idx |-> FullIdx],
                  [kind |-> "deps", hasModelID |-> FALSE, idx |-> EmptyIdx]} :
          out = [EmptyOut EXCEPT ![MERGED_FILE] = mf, ![DEPS_FILE] = df]
    /\ spc = "start"
    /\ batch = 1
    /\ bi = 0
    /\ rows_out = <<>>
    /\ serr = "none"
    /\ IF /\ out[MERGED_FILE] # NoFile
          /\ out[DEPS_FILE] # NoFile
          /\ ModelIDColumn(out[MERGED_FILE]) \cap ModelIDColumn(out[DEPS_FILE]) # {}
       THEN /\ corr \in [BiomarkerSet -> [DependencySet -> CorrValues]]
            /\ topk_b \in 1..MaxTopK
       ELSE /\ corr = ZeroCorr
            /\ topk_b = 1

SpecMerger == InitMerger /\ [][MergerNext]_vars

Present(b) == [present |-> TRUE, hasModelID |-> TRUE, idx |-> b]
Absent == [present |-> FALSE, hasModelID |-> FALSE, idx |-> EmptyIdx]

\* data/ with a damaging-mutation table and a copy-number table over the
\* same models, each model on one row, any cells in their column: empty,
\* a text, and numbers on both sides of zero and of the threshold
InitBinarize ==
    /\ \E b \in {x \in Indexes : NumRows(x) > 0 /\ \A i \in ModelIDs : x[i] <= 1} :
          /\ data = [l \in OmicsSet \cup {CRISPR} |->
                        IF l \in {"mut_dmg", "cnv"} THEN Present(b) ELSE Absent]
          /\ \E mut, cnv \in [1..NumRows(b) ->
                               {NaN, Text, Num(-5), Num(CNV_THRESHOLD), Num(-2),
                                Num(0), Num(4)}] :
                cells = [l \in OmicsSet |->
                            IF l = "mut_dmg" THEN mut
                            ELSE IF l = "cnv" THEN cnv ELSE <<>>]
    /\ cols = [l \in OmicsSet |-> GeneColumn(data[l])]
    /\ out = EmptyOut
    /\ MergerStart
    /\ ScorerOff
    /\ BuildOff
    /\ PartitionOff
    /\ NetOff

SpecBinarize == InitBinarize /\ [][MergerNext]_vars

\* the feature columns a table can have: any of these names, in this order
ColumnNames == <<"g", "g_cnv", "h">>

\* data/ with an expression, a damaging-mutation and a copy-number table
\* over one model, any feature columns in each
InitColumns ==
    /\ data = [l \in OmicsSet \cup {CRISPR} |->
                  IF l \in {"expr", "mut_dmg", "cnv"}
                  THEN Present([i \in ModelIDs |-> IF i = "A" THEN 1 ELSE 0])
                  ELSE Absent]
    /\ cells = [l \in OmicsSet |-> ZeroColumn(data[l])]
    /\ cols \in [OmicsSet -> {SelectSeq(ColumnNames, LAMBDA c : c \in S) :
                                 S \in SUBSET Range(ColumnNames)}]
    /\ cols["mut_hot"] = <<>>
    /\ out = EmptyOut
    /\ MergerStart
    /\ ScorerOff
    /\ BuildOff
    /\ PartitionOff
    /\ NetOff

SpecColumns == InitColumns /\ [][MergerNext]_vars

SpecScorer == InitScorer /\ [][ScorerNext]_vars

\* outputs/ with both inputs of feature_selection.py, any correlations out
\* of three of the values, any TOPK_PER_BIOMARKER and any BATCH
InitBatch ==
    /\ MergerOff
    /\ BuildOff
    /\ PartitionOff
    /\ NetOff
    /\ out = [EmptyOut EXCEPT ![MERGED_FILE] = [kind |-> "matrix", idx |-> FullIdx],
                              ![DEPS_FILE] = [kind |-> "deps", hasModelID |-> TRUE,
                                              idx |-> FullIdx]]
    /\ spc = "start"
    /\ corr \in [BiomarkerSet -> [DependencySet -> CorrValues \ {90}]]
    /\ topk_b \in 1..MaxTopK
    /\ batch \in 1..MaxBatch
    /\ bi = 0
    /\ rows_out = <<>>
    /\ serr = "none"

SpecBatch == InitBatch /\ [][ScorerNext]_vars

\* the rows a processed_features.csv given to community_detection.py holds
EdgeRows == [biomarker : BmNames, dependency : DepNames, score : ScoreValues]

EdgeLists == UNION {[1..n -> EdgeRows] : n \in 0..MaxEdges}

BuildFeaturesStates ==
    {NoFile, [kind |-> "matrix", idx |-> FullIdx]}
    \cup {[kind |-> "edges", rows |-> rows] : rows \in EdgeLists}

BuildDepsStates == {NoFile} \cup {[kind |-> "deplist", deps |-> ds] : ds \in DepLists}

InitBuild ==
    /\ MergerOff
    /\ ScorerOff
    /\ PartitionOff
    /\ NetOff
    /\ \E ff \in BuildFeaturesStates, df \in BuildDepsStates :
          out = [EmptyOut EXCEPT ![FEATURES_FILE] = ff, ![DEPS_FILE] = df]
    /\ gpc = "start"
    /\ features_df = <<>>
    /\ valid_deps = {}
    /\ biomarkers = <<>>
    /\ B = EmptyGraph
    /\ gerr = "none"
    /\ IF out[FEATURES_FILE].kind = "edges" /\ out[DEPS_FILE] # NoFile
       THEN topk_dep \in 1..MaxTopK /\ topk_bm \in 1..MaxTopK
       ELSE topk_dep = 1 /\ topk_bm = 1

SpecBuild == InitBuild /\ [][BuildNext]_vars

\* a processed_features.csv as feature_selection.py writes it, every
\* (biomarker, dependency) pair on one row at most, over genes that are
\* biomarkers (an expression column) and dependencies (a CRISPR column) at
\* once, as the gene names of the DepMap tables are; the scores are 0.5
\* and 1
GeneRows ==
    [biomarker : DepNames, dependency : DepNames,
     score : {[n |-> 50, d |-> 100], [n |-> 100, d |-> 100]}]

PairsOnce(rows) ==
    \A j, k \in 1..Len(rows) :
        (rows[j].biomarker = rows[k].biomarker
            /\ rows[j].dependency = rows[k].dependency) => j = k

GeneEdgeLists ==
    UNION {{rows \in [1..n -> GeneRows] : PairsOnce(rows)}
           : n \in 0..Cardinality(DepNames \X DepNames)}

InitGenes ==
    /\ MergerOff
    /\ ScorerOff
    /\ PartitionOff
    /\ NetOff
    /\ \E rows \in GeneEdgeLists :
          out = [EmptyOut EXCEPT ![FEATURES_FILE] = [kind |-> "edges", rows |-> rows],
                                 ![DEPS_FILE] = [kind |-> "deplist", deps |-> DepNames]]
    /\ gpc = "start"
    /\ features_df = <<>>
    /\ valid_deps = {}
    /\ biomarkers = <<>>
    /\ B = EmptyGraph
    /\ gerr = "none"
    /\ topk_dep \in 1..MaxTopK
    /\ topk_bm \in 1..MaxTopK

\* community_detection.py's build over gene-named edge lists
SpecGenes == InitGenes /\ [][BuildNext]_vars

\* the graphs a bipartite_network.gpickle given to the partitioner holds:
\* any of the nodes, tagged, and any of the edges between them
GraphEdges ==
    {[ends |-> {"x", "z"}, weight |-> [n |-> 1, d |-> 1]],
     [ends |-> {"y", "z"}, weight |-> [n |-> 1, d |-> 2]],
     [ends |-> {"y", "w"}, weight |-> [n |-> 1, d |-> 1]]}

NodeClass == [x |-> "biomarker", y |-> "biomarker", z |-> "dependency", w |-> "dependency"]

Graphs ==
    UNION {{[bipartite |-> [n \in ns |-> NodeClass[n]], edges |-> es] :
               es \in SUBSET {e \in GraphEdges : e.ends \subseteq ns}}
           : ns \in SUBSET Range(SortedNames)}

InitPartition ==
    /\ MergerOff
    /\ ScorerOff
    /\ BuildOff
    /\ NetOff
    /\ \E nf \in {NoFile} \cup {[kind |-> "graph", graph |-> g] : g \in Graphs} :
          out = [EmptyOut EXCEPT ![NET_FILE] = nf]
    /\ ppc = "start"
    /\ G = EmptyGraph
    /\ partition_sets = <<>>
    /\ partition = <<>>
    /\ perr = "none"

SpecPartition == InitPartition /\ [][PartitionNext]_vars

\* a bipartite_network.gpickle left in outputs/ by an earlier run
StaleGraph ==
    [bipartite |-> [n \in {"y", "w"} |-> NodeClass[n]],
     edges |-> {e \in GraphEdges : e.ends = {"y", "w"}}]

\* community_detection.py from its first line: outputs/ with any of the
\* two inputs, among them a dependency list without entries and edge files
\* of one row at most, and with or without an earlier pickle
InitStages ==
    /\ MergerOff
    /\ ScorerOff
    /\ PartitionOff
    /\ NetOff
    /\ \E ff \in {f \in BuildFeaturesStates :
                     f # NoFile /\ f.kind = "edges" => Len(f.rows) <= 1},
          df \in BuildDepsStates \cup {[kind |-> "deplist", deps |-> {}]},
          nf \in {NoFile, [kind |-> "graph", graph |-> StaleGraph]} :
          out = [EmptyOut EXCEPT ![FEATURES_FILE] = ff, ![DEPS_FILE] = df,
                                 ![NET_FILE] = nf]
    /\ gpc = "start"
    /\ features_df = <<>>
    /\ valid_deps = {}
    /\ biomarkers = <<>>
    /\ B = EmptyGraph
    /\ gerr = "none"
    /\ topk_dep \in 1..MaxTopK
    /\ topk_bm \in 1..MaxTopK

\* the whole script, and its partition part over any pickle
SpecStages ==
    (InitStages \/ InitPartition)
        /\ [][BuildNext \/ ContinueToPartition \/ PartitionNext]_vars

\* a script is started when no other runs: the processes of the earlier
\* runs have ended, data/ and outputs/ are as they left them
StartStage ==
    /\ mpc \in {"off", "done", "error"}
    /\ spc \in {"off", "done", "error"}
    /\ gpc \in {"off", "done", "error"}
    /\ \E stage \in {"preprocess", "feature_selection", "community_detection"} :
          /\ mpc' = IF stage = "preprocess" THEN "start" ELSE "off"
          /\ spc' = IF stage = "feature_selection" THEN "start" ELSE "off"
          /\ gpc' = IF stage = "community_detection" THEN "start" ELSE "off"
          /\ IF stage = "feature_selection"
             THEN /\ corr' \in {[b \in BiomarkerSet |-> [d \in DependencySet |-> v]]
                                  : v \in CorrValues}
                  /\ topk_b' \in 1..MaxTopK
             ELSE corr' = ZeroCorr /\ topk_b' = 1
          /\ IF stage = "community_detection"
             THEN topk_dep' \in 1..MaxTopK /\ topk_bm' \in 1..MaxTopK
             ELSE topk_dep' = 1 /\ topk_bm' = 1
    /\ loaded' = [l \in OmicsSet |-> [status |-> "none", idx |-> EmptyIdx]]
    /\ tables' = <<>>
    /\ merged' = None
    /\ merr' = "none"
    /\ binarized' = NoCells
    /\ merged_cols' = <<>>
    /\ batch' = 1
    /\ bi' = 0
    /\ rows_out' = <<>>
    /\ serr' = "none"
    /\ features_df' = <<>>
    /\ valid_deps' = {}
    /\ biomarkers' = <<>>
    /\ B' = EmptyGraph
    /\ gerr' = "none"
    /\ UNCHANGED <<out, data, cells, cols, pvars, nvars>>

\* data/ with an expression table of one model and any dependency file,
\* outputs/ empty, no script started yet
InitOrder ==
    /\ \E cf \in DepFileStates :
          data = [l \in OmicsSet \cup {CRISPR} |->
                     IF l = "expr"
                     THEN Present([i \in ModelIDs |-> IF i = "A" THEN 1 ELSE 0])
                     ELSE IF l = CRISPR THEN cf ELSE Absent]
    /\ cells = [l \in OmicsSet |-> ZeroColumn(data[l])]
    /\ cols = [l \in OmicsSet |-> GeneColumn(data[l])]
    /\ out = EmptyOut
    /\ mpc = "off"
    /\ loaded = [l \in OmicsSet |-> [status |-> "none", idx |-> EmptyIdx]]
    /\ tables = <<>>
    /\ merged = None
    /\ merr = "none"
    /\ binarized = NoCells
    /\ merged_cols = <<>>
    /\ ScorerOff
    /\ BuildOff
    /\ PartitionOff
    /\ NetOff

\* preprocess.py, feature_selection.py and the build part of
\* community_detection.py, run one after the other in any order, any
\* number of times
SpecOrder ==
    InitOrder /\ [][StartStage \/ MergerNext \/ ScorerNext \/ BuildNext]_vars

\* feature_selection.py over any correlations, and the build part of
\* community_detection.py over gene-named edge lists
SpecWeights == (InitScorer \/ InitGenes) /\ [][ScorerNext \/ BuildNext]_vars

\* outputs/ as feature_selection.py leaves it for community_detection.py:
\* processed_features.csv holds what lines 86-93 write of gene-named
\* triples with the absolute correlations 0.5 and 1, each pair once;
\* dependencies.csv is any dependency list, or absent
InitNormalized ==
    /\ MergerOff
    /\ ScorerOff
    /\ PartitionOff
    /\ NetOff
    /\ \E rows \in GeneEdgeLists, df \in BuildDepsStates :
          LET rows_out_df == [k \in 1..Len(rows) |->
                                 [rows[k] EXCEPT !.score = rows[k].score.n]]
          IN out = [EmptyOut EXCEPT
                       ![FEATURES_FILE] = [kind |-> "edges",
                                           rows |-> Renormalize(rows_out_df)],
                       ![DEPS_FILE] = df]
    /\ gpc = "start"
    /\ features_df = <<>>
    /\ valid_deps = {}
    /\ biomarkers = <<>>
    /\ B = EmptyGraph
    /\ gerr = "none"
    /\ topk_dep \in 1..MaxTopK
    /\ topk_bm \in 1..MaxTopK

\* the build part of community_detection.py over the Scorer's output
SpecNormalized == InitNormalized /\ [][BuildNext]_vars

\* the files network_build.py can find in outputs/
NetEdgeRows ==
    [biomarker : BmNames, dependency : DepNames,
     score : {[n |-> 0, d |-> 100], [n |-> 100, d |-> 100]}]

NetEdgeLists == UNION {[1..n -> NetEdgeRows] : n \in 0..MaxNetEdges}

NetFeaturesStates ==
    {NoFile, [kind |-> "matrix", idx |-> FullIdx]}
    \cup {[kind |-> "edges", rows |-> rows] : rows \in NetEdgeLists}

InitNet ==
    /\ MergerOff
    /\ ScorerOff
    /\ BuildOff
    /\ PartitionOff
    /\ \E ff \in NetFeaturesStates, df \in BuildDepsStates,
          mf \in {NoFile,
                  [kind |-> "depmap", hasColumns |-> FALSE, map |-> <<>>],
                  [kind |-> "depmap", hasColumns |-> TRUE, map |-> [z |-> "w"]]} :
          out = [EmptyOut EXCEPT ![FEATURES_FILE] = ff, ![DEPS_FILE] = df,
                                 ![DEPMAP_FILE] = mf]
    /\ npc = "start"
    /\ NB = EmptyGraph
    /\ nb_partition = <<>>
    /\ nerr = "none"

SpecNet == InitNet /\ [][NetNext]_vars

\* a run of community_detection.py's partitioner, or of network_build.py
SpecCommunities == (InitPartition \/ InitNet) /\ [][PartitionNext \/ NetNext]_vars

\* a run of feature_selection.py, or a run of community_detection.py's build
SpecEdges == (InitScorer \/ InitBuild) /\ [][ScorerNext \/ BuildNext]_vars

-----------------------------------------------------------------------------
(* Claims about the Table Merger *)

\* the ModelIDs common to all collected tables
RECURSIVE CommonIds(_, _, _)
CommonIds(ld, tbls, k) ==
    IF k > Len(tbls) THEN ModelIDs
    ELSE IdSet(ld[tbls[k]].idx) \cap CommonIds(ld, tbls, k + 1)

MergeRan == mpc \notin {"start", "loaded"}

MergerOutputs == {MERGED_FILE, FEATURES_FILE, DEPS_FILE}

\* C1: when two or more tables were collected and no ModelID is common to
\* all of them, the run ends in a RuntimeError and merged_biomarkers.csv is
\* not written; a merged file that is written never has zero rows.
C1_EmptyIntersectionFails ==
    /\ (MergeRan /\ Len(tables) >= 2 /\ CommonIds(loaded, tables, 1) = {})
          => (mpc = "error" /\ merr = "RuntimeError" /\ out[MERGED_FILE] = NoFile)
    /\ out[MERGED_FILE] # NoFile => NumRows(out[MERGED_FILE].idx) > 0

\* C1 witness: a run over at least two tables, each with rows, that share
\* no ModelID, ended in the RuntimeError
C1_Witness ==
    /\ mpc = "error" /\ merr = "RuntimeError"
    /\ Len(tables) >= 2
    /\ CommonIds(loaded, tables, 1) = {}

\* C2 as stated: the merged table has no more rows than any collected
\* table, also when a ModelID occurs on more than one row of a table.
C2_RowsAtMostMin ==
    merged # None =>
        \A k \in 1..Len(tables) :
            NumRows(merged.idx) <= NumRows(loaded[tables[k]].idx)

UniqueIds(idx) == \A i \in ModelIDs : idx[i] <= 1

\* C2 amended: when no ModelID occurs on more than one row of any collected
\* table, the merged table has no more rows than any collected table.
C2_RowsAtMostMinUnique ==
    (merged # None /\ \A k \in 1..Len(tables) : UniqueIds(loaded[tables[k]].idx))
        => \A k \in 1..Len(tables) :
               NumRows(merged.idx) <= NumRows(loaded[tables[k]].idx)

\* C2 witness: two or more tables with unique ModelIDs were merged into a
\* table with rows, and one of them has a row that did not survive
C2_Witness ==
    /\ mpc = "done"
    /\ Len(tables) >= 2
    /\ \A k \in 1..Len(tables) : UniqueIds(loaded[tables[k]].idx)
    /\ \E k \in 1..Len(tables) :
           NumRows(merged.idx) < NumRows(loaded[tables[k]].idx)

\* C3: the ModelIDs of the merged table, and of the file written from it,
\* are exactly the ModelIDs common to all collected tables.
C3_MergedIsIntersection ==
    /\ merged # None => IdSet(merged.idx) = CommonIds(loaded, tables, 1)
    /\ out[MERGED_FILE] # NoFile =>
           IdSet(out[MERGED_FILE].idx) = CommonIds(loaded, tables, 1)

\* C3 witness: tables with the ModelIDs {A,B} and {B,C} were merged and
\* the file written holds exactly {B}
C3_Witness ==
    /\ out[MERGED_FILE] # NoFile
    /\ \E j, k \in 1..Len(tables) :
           /\ IdSet(loaded[tables[j]].idx) = {"A", "B"}
           /\ IdSet(loaded[tables[k]].idx) = {"B", "C"}
    /\ IdSet(out[MERGED_FILE].idx) = {"B"}

LacksModelID(file) == file.present /\ ~file.hasModelID

\* C10: when an omics table that is present has no ModelID, the run ends
\* in a ValueError and none of merged_biomarkers.csv, processed_features.csv
\* and dependencies.csv is written.
C10_MissingModelIDAborts ==
    (\E l \in OmicsSet : LacksModelID(data[l])) =>
        /\ \A f \in MergerOutputs : out[f] = NoFile
        /\ mpc \in {"start", "error"}
        /\ mpc = "error" => merr = "ValueError"

\* C10 witness: a run over data/ with a table without ModelID, and other
\* tables that would merge, has ended in the ValueError
C10_Witness ==
    /\ mpc = "error" /\ merr = "ValueError"
    /\ \E l \in OmicsSet : LacksModelID(data[l])
    /\ \E l \in OmicsSet : data[l].hasModelID /\ NumRows(data[l].idx) > 0

-----------------------------------------------------------------------------
(* Claims about the Correlation Scorer *)

Min(a, b) == IF a <= b THEN a ELSE b

\* the triples of biomarker b collected so far, in order
Emitted(b) == SelectSeq(rows_out, LAMBDA r : r.biomarker = b)

\* the dependencies whose absolute correlation with b meets the threshold
Meeting(b) == {d \in DependencySet : Abs(corr[b][d]) >= MIN_ABS_CORR}

\* threshold first, top-K second
ThresholdThenTopK(b) ==
    nlargest([d \in DependencySet |-> Abs(corr[b][d])],
             SelectSeq(Dependencies, LAMBDA d : d \in Meeting(b)),
             topk_b)

\* C8: for every scored biomarker the triples are the min(TOPK, number
\* meeting the threshold) dependencies of largest absolute correlation among
\* those meeting the threshold, with that magnitude as score, in descending
\* order; they are what thresholding first and taking the top-K would give.
\* The file written holds the same pairs in the same order.
C8_TopKAboveThreshold ==
    /\ spc = "done" =>
          /\ Len(out[FEATURES_FILE].rows) = Len(rows_out)
          /\ \A k \in 1..Len(rows_out) :
                /\ out[FEATURES_FILE].rows[k].biomarker = rows_out[k].biomarker
                /\ out[FEATURES_FILE].rows[k].dependency = rows_out[k].dependency
    /\ \A k \in 1..bi :
        LET b == Biomarkers[k]
            em == Emitted(b)
            deps == {em[j].dependency : j \in 1..Len(em)}
        IN /\ Len(em) = Min(topk_b, Cardinality(Meeting(b)))
           /\ Cardinality(deps) = Len(em)
           /\ deps \subseteq Meeting(b)
           /\ \A j \in 1..Len(em) : em[j].score = Abs(corr[b][em[j].dependency])
           /\ \A j \in 1..(Len(em) - 1) : em[j].score >= em[j + 1].score
           /\ \A d \in Meeting(b) \ deps : \A j \in 1..Len(em) :
                 Abs(corr[b][d]) <= em[j].score
           /\ [j \in 1..Len(em) |-> em[j].dependency] = ThresholdThenTopK(b)

\* C8 witness: a biomarker with the correlations 0.9, -0.85, 0.2, 0.05 was
\* scored with TOPK = 2 and its triples are d1 (0.9) and d2 (0.85), in
\* that order
C8_Witness ==
    /\ topk_b = 2
    /\ \E k \in 1..bi :
          /\ corr[Biomarkers[k]] = [d1 |-> 90, d2 |-> -85, d3 |-> 20, d4 |-> 5]
          /\ [j \in 1..Len(Emitted(Biomarkers[k])) |->
                 <<Emitted(Biomarkers[k])[j].dependency, Emitted(Biomarkers[k])[j].score>>]
             = <<(<<"d1", 90>>), (<<"d2", 85>>)>>

\* C9 as stated: the score recorded for a retained pair is its signed
\* correlation.
C9_SignedScoreRecorded ==
    \A k \in 1..Len(rows_out) :
        rows_out[k].score = corr[rows_out[k].biomarker][rows_out[k].dependency]

\* C9 amended: the score recorded for a retained pair is the absolute value
\* of its correlation, so it is positive also when the correlation is
\* negative.
C9_AbsoluteScoreRecorded ==
    \A k \in 1..Len(rows_out) :
        /\ rows_out[k].score = Abs(corr[rows_out[k].biomarker][rows_out[k].dependency])
        /\ rows_out[k].score > 0

\* C9 witness: a pair of negative correlation was retained
C9_Witness ==
    \E k \in 1..Len(rows_out) :
        /\ corr[rows_out[k].biomarker][rows_out[k].dependency] = -85
        /\ rows_out[k].score = 85

-----------------------------------------------------------------------------
(* Claims about the edges: scores, sparsification, graph *)

InUnitInterval(s) == s.d > 0 /\ 0 < s.n /\ s.n <= s.d

Sparsified == gpc \in {"sparsified", "edges", "done"}

EdgesBuilt == gpc \in {"edges", "done"}

\* C4: every score of the processed_features.csv that the Scorer wrote, every
\* score of the sparsified edge rows, and every edge weight of the graph
\* built and of the graph saved, is greater than 0 and at most 1.
C4_ScoresInUnitInterval ==
    /\ (spc = "done" /\ out[FEATURES_FILE].kind = "edges") =>
           \A k \in 1..Len(out[FEATURES_FILE].rows) :
               InUnitInterval(out[FEATURES_FILE].rows[k].score)
    /\ Sparsified =>
           \A k \in 1..Len(features_df) : InUnitInterval(features_df[k].score)
    /\ EdgesBuilt => \A e \in B.edges : InUnitInterval(e.weight)
    /\ out[NET_FILE] # NoFile =>
           \A e \in out[NET_FILE].graph.edges : InUnitInterval(e.weight)

\* C4 witness: the Scorer wrote a dependency with two edges, one of score 1
\* and one of score 20/90
C4_Witness ==
    /\ spc = "done"
    /\ out[FEATURES_FILE].kind = "edges"
    /\ \E j, k \in 1..Len(out[FEATURES_FILE].rows) :
          /\ out[FEATURES_FILE].rows[j].dependency = out[FEATURES_FILE].rows[k].dependency
          /\ out[FEATURES_FILE].rows[j].score = [n |-> 90, d |-> 90]
          /\ out[FEATURES_FILE].rows[k].score = [n |-> 20, d |-> 90]

CountDep(rows, d) == Cardinality({k \in 1..Len(rows) : rows[k].dependency = d})
CountBm(rows, b) == Cardinality({k \in 1..Len(rows) : rows[k].biomarker = b})

\* C5: after both truncations no dependency has more than TOPK_PER_DEP edge
\* rows and no biomarker has more than TOPK_PER_BM edge rows.
C5_TopKBounds ==
    Sparsified =>
        /\ \A d \in DepNames : CountDep(features_df, d) <= topk_dep
        /\ \A b \in BmNames : CountBm(features_df, b) <= topk_bm

\* the rows of the file that are listed and positive: the frame before
\* the sparsification
BeforeSparsify ==
    PositiveRows(SelectSeq(out[FEATURES_FILE].rows,
                           LAMBDA r : r.dependency \in valid_deps))

\* C5 witness: the sparsification ran on rows of which a dependency had
\* more than TOPK_PER_DEP and a biomarker more than TOPK_PER_BM, and rows
\* are left
C5_Witness ==
    /\ gpc = "sparsified"
    /\ \E d \in DepNames : CountDep(BeforeSparsify, d) > topk_dep
    /\ \E b \in BmNames : CountBm(BeforeSparsify, b) > topk_bm
    /\ Len(features_df) >= 2

\* C6: no edge of the built graph is a self-loop and none joins two nodes
\* of the same class.
C6_NoSameClassEdge ==
    EdgesBuilt =>
        \A e \in B.edges :
            /\ Cardinality(e.ends) = 2
            /\ \A u, v \in e.ends : u # v => B.bipartite[u] # B.bipartite[v]

-----------------------------------------------------------------------------
(* Claims about the Community Partitioner *)

\* C7: the community table written by community_detection.py has exactly
\* one row for every node of the graph loaded from the pickle and no other
\* row, and every community id is a non-negative integer; the same holds
\* of the table network_build.py writes for the graph it built.
TotalOn(rows, gr) ==
    /\ \A n \in Nodes(gr) :
          Cardinality({k \in 1..Len(rows) : rows[k].node = n}) = 1
    /\ \A k \in 1..Len(rows) :
          /\ rows[k].node \in Nodes(gr)
          /\ rows[k].community \in Nat

C7_TotalAssignment ==
    /\ out[COMM_FILE] # NoFile => TotalOn(out[COMM_FILE].rows, G)
    /\ ppc \in {"loaded", "detected", "done"} => G = out[NET_FILE].graph
    /\ out[ASSIGN_FILE] # NoFile => TotalOn(out[ASSIGN_FILE].rows, NB)

IsolatedNodes(gr) == {n \in Nodes(gr) : \A e \in gr.edges : n \notin e.ends}

\* C7 witness: a table was written for a graph that has an edge and an
\* isolated node, in two or more communities
C7_Witness ==
    /\ out[COMM_FILE] # NoFile
    /\ G.edges # {}
    /\ IsolatedNodes(G) # {}
    /\ Len(partition_sets) >= 2

-----------------------------------------------------------------------------
(* Claims about the errors of the stages *)

AbsentInput(l) == ~data[l].present

\* the part of C11 about the Merger: when an omics table or the CRISPR file
\* is absent, the run writes none of its files
MergerAbortsOnAbsentInput ==
    (mpc # "off" /\ \E l \in OmicsSet \cup {CRISPR} : AbsentInput(l)) =>
        /\ \A f \in MergerOutputs : out[f] = NoFile
        /\ mpc \in {"start", "error"}

\* the part about the Scorer, which reads merged_biomarkers.csv and
\* dependencies.csv and writes processed_features.csv
ScorerAbortsOnAbsentInput ==
    (spc # "off" /\ (out[MERGED_FILE] = NoFile \/ out[DEPS_FILE] = NoFile)) =>
        /\ out[FEATURES_FILE] = NoFile
        /\ spc \in {"start", "error"}
        /\ spc = "error" => serr = "FileNotFoundError"

\* the part about the Graph Builder, which reads processed_features.csv and
\* dependencies.csv and writes bipartite_network.gpickle
BuilderAbortsOnAbsentInput ==
    (gpc # "off" /\ (out[FEATURES_FILE] = NoFile \/ out[DEPS_FILE] = NoFile)) =>
        /\ out[NET_FILE] = NoFile
        /\ gpc \in {"start", "error"}
        /\ gpc = "error" => gerr = "FileNotFoundError"

\* the part about the Partitioner, which reads bipartite_network.gpickle
\* and writes communities.csv
PartitionerAbortsOnAbsentInput ==
    (ppc # "off" /\ out[NET_FILE] = NoFile) =>
        /\ out[COMM_FILE] = NoFile
        /\ ppc \in {"start", "error"}
        /\ ppc = "error" => perr = "FileNotFoundError"

\* C11: a stage whose input file is absent aborts before it writes any of
\* its output files; for the Merger the inputs are the four omics tables
\* and the CRISPR dependency file.
C11_AbsentInputAborts ==
    /\ MergerAbortsOnAbsentInput
    /\ ScorerAbortsOnAbsentInput
    /\ BuilderAbortsOnAbsentInput
    /\ PartitionerAbortsOnAbsentInput

\* C12: the Scorer does not write an edge file without rows, and the Graph
\* Builder does not write a graph for an edge list that the filters and
\* truncations left without rows.
C12_EmptyResultAborts ==
    /\ (spc = "done" /\ out[FEATURES_FILE].kind = "edges") =>
           Len(out[FEATURES_FILE].rows) > 0
    /\ (gpc = "done" /\ out[NET_FILE] # NoFile) => Len(features_df) > 0

-----------------------------------------------------------------------------
(* Claims about the Edge Sparsifier *)

\* the rows that reach the truncations: the listed, positive rows of the
\* file, normalized, of weight EDGE_MIN or more
Strong == MinWeightRows(NormalizePerDependency(BeforeSparsify))

\* row j is ranked before row k of the same dependency: a higher score, or
\* the same score and an earlier place in the list
DepRankedBefore(rows, j, k) ==
    /\ rows[j].dependency = rows[k].dependency
    /\ \/ RLess(rows[k].score, rows[j].score)
       \/ REq(rows[j].score, rows[k].score) /\ j < k

\* the places of the rows within the cap of their dependency
DepKept(rows, n) ==
    {k \in 1..Len(rows) :
        Cardinality({j \in 1..Len(rows) : DepRankedBefore(rows, j, k)}) < n}

\* row j stands before row k in the frame ordered by dependency
FrameBefore(rows, j, k) ==
    \/ Rank(rows[j].dependency) < Rank(rows[k].dependency)
    \/ DepRankedBefore(rows, j, k)

\* row j is ranked before row k of the same biomarker
BmRankedBefore(rows, j, k) ==
    /\ rows[j].biomarker = rows[k].biomarker
    /\ \/ RLess(rows[k].score, rows[j].score)
       \/ REq(rows[j].score, rows[k].score) /\ FrameBefore(rows, j, k)

\* of the rows within the cap of their dependency, the places of those
\* within the cap of their biomarker
BmKept(rows, kd, kb) ==
    {k \in DepKept(rows, kd) :
        Cardinality({j \in DepKept(rows, kd) : BmRankedBefore(rows, j, k)}) < kb}

\* C13: the sparsified rows are the rows within the cap of their biomarker
\* among the rows within the cap of their dependency among the rows of
\* weight EDGE_MIN or more: the dependency cap is applied first, the
\* biomarker cap to what it leaves.
C13_DependencyCapFirst ==
    Sparsified =>
        LET kept == BmKept(Strong, topk_dep, topk_bm)
        IN /\ Len(features_df) = Cardinality(kept)
           /\ Range(features_df) = {Strong[k] : k \in kept}

\* C13 witness: a sparsification for which the other order of the two
\* truncations gives another edge set, and in which a biomarker with more
\* than TOPK_PER_BM rows of weight EDGE_MIN or more is left with fewer than
\* TOPK_PER_BM, the dependency cap having removed them
C13_Witness ==
    /\ gpc = "sparsified"
    /\ Range(SparsifySwapped(Strong, topk_dep, topk_bm)) # Range(features_df)
    /\ \E b \in DepNames :
          /\ CountBm(Strong, b) > topk_bm
          /\ CountBm(TopKPerDependency(Strong, topk_dep), b) < topk_bm
          /\ CountBm(features_df, b) < topk_bm

Tagged(rows) ==
    [k \in 1..Len(rows) |->
        [biomarker |-> rows[k].biomarker, dependency |-> rows[k].dependency,
         score |-> rows[k].score, pos |-> k]]

Untagged(rows) ==
    [k \in 1..Len(rows) |->
        [biomarker |-> rows[k].biomarker, dependency |-> rows[k].dependency,
         score |-> rows[k].score]]

PosSet(rows) == {rows[k].pos : k \in 1..Len(rows)}

\* the dependency-side truncation of the rows that reach it, every row
\* with its place in that list
DepSideInput == Tagged(Strong)
DepSideOutput == TopKPerDependency(DepSideInput, topk_dep)

\* C19: of the rows of a dependency the dependency-side truncation keeps
\* min(TOPK_PER_DEP, their number); a dropped row has no higher score than a
\* kept row of the dependency, and when the scores are equal the kept row
\* is the earlier one of the list.  The same per biomarker for the
\* biomarker-side truncation, on the list the dependency side left; what it
\* keeps is the sparsified frame.
C19_RankedTruncation ==
    Sparsified =>
        LET dIn == DepSideInput
            dOut == TopKPerDependency(dIn, topk_dep)
            dKept == PosSet(dOut)
            bIn == Tagged(dOut)
            bOut == TopKPerBiomarker(bIn, topk_bm)
            bKept == PosSet(bOut)
        IN /\ \A d \in DepNames :
                 Cardinality({k \in dKept : dIn[k].dependency = d})
                     = Min(topk_dep, CountDep(dIn, d))
           /\ \A k \in dKept : \A j \in (1..Len(dIn)) \ dKept :
                 dIn[j].dependency = dIn[k].dependency =>
                    /\ RLeq(dIn[j].score, dIn[k].score)
                    /\ REq(dIn[j].score, dIn[k].score) => k < j
           /\ \A b \in BmNames \cup DepNames :
                 Cardinality({k \in bKept : bIn[k].biomarker = b})
                     = Min(topk_bm, CountBm(bIn, b))
           /\ \A k \in bKept : \A j \in (1..Len(bIn)) \ bKept :
                 bIn[j].biomarker = bIn[k].biomarker =>
                    /\ RLeq(bIn[j].score, bIn[k].score)
                    /\ REq(bIn[j].score, bIn[k].score) => k < j
           /\ features_df = Untagged(bOut)

\* C19 witness: a sparsification in which the dependency cap dropped a row
\* that has the score of a kept row of its dependency, and dropped a row of
\* lower score than the kept row of another dependency
C19_Witness ==
    /\ gpc = "sparsified"
    /\ \E k \in PosSet(DepSideOutput) :
          \E j \in (1..Len(DepSideInput)) \ PosSet(DepSideOutput) :
             /\ DepSideInput[j].dependency = DepSideInput[k].dependency
             /\ REq(DepSideInput[j].score, DepSideInput[k].score)
    /\ \E k \in PosSet(DepSideOutput) :
          \E j \in (1..Len(DepSideInput)) \ PosSet(DepSideOutput) :
             /\ DepSideInput[j].dependency = DepSideInput[k].dependency
             /\ RLess(DepSideInput[j].score, DepSideInput[k].score)
    /\ Len(features_df) >= 2

-----------------------------------------------------------------------------
(* Claims about the Bipartite Graph Builder *)

\* the node sets the build declares on lines 61-66
DeclaredNodes == Range(biomarkers) \cup valid_deps

NodesDeclared == gpc \in {"nodes", "sparsified", "edges", "done"}

\* row r of the file is a row between declared nodes
Declared(r) == r.biomarker \in Range(biomarkers) /\ r.dependency \in valid_deps

\* C14: the nodes of the graph are the declared biomarkers and the declared
\* dependencies, before and after the edge loop and in the pickle, and every
\* edge joins the biomarker and the dependency of a row of the edge list
\* whose biomarker and dependency are both declared; so a row with an
\* undeclared end adds neither an edge nor a node.
C14_EdgesJoinDeclaredNodes ==
    /\ NodesDeclared => Nodes(B) = DeclaredNodes
    /\ EdgesBuilt =>
          \A e \in B.edges :
             \E k \in 1..Len(out[FEATURES_FILE].rows) :
                /\ Declared(out[FEATURES_FILE].rows[k])
                /\ e.ends = {out[FEATURES_FILE].rows[k].biomarker,
                             out[FEATURES_FILE].rows[k].dependency}
    /\ gpc = "done" => out[NET_FILE].graph = B

\* C14 witness: a graph with an edge was built from an edge list that has
\* a row with an unlisted dependency and a row with an undeclared biomarker
C14_Witness ==
    /\ gpc = "done"
    /\ B.edges # {}
    /\ \E k \in 1..Len(out[FEATURES_FILE].rows) :
          out[FEATURES_FILE].rows[k].dependency \notin valid_deps
    /\ \E k \in 1..Len(out[FEATURES_FILE].rows) :
          out[FEATURES_FILE].rows[k].biomarker \notin DeclaredNodes

\* the part of C20 about the Scorer: no pair on two rows
ScorerPairsOnce ==
    /\ PairsOnce(rows_out)
    /\ (spc = "done" /\ out[FEATURES_FILE].kind = "edges") =>
           PairsOnce(out[FEATURES_FILE].rows)

\* the graph has the edge of row r, with the score of r as weight
HasEdgeOf(r) ==
    \E e \in B.edges :
        e.ends = {r.biomarker, r.dependency} /\ REq(e.weight, r.score)

\* C20: no (biomarker, dependency) pair is on two rows of the Scorer's list
\* or of the list the edge loop iterates, and the graph has one edge for
\* every row of that list, of weight the score of the row.
C20_OneWeightPerPair ==
    /\ ScorerPairsOnce
    /\ Sparsified => PairsOnce(features_df)
    /\ EdgesBuilt =>
          /\ Cardinality(B.edges) = Len(features_df)
          /\ \A k \in 1..Len(features_df) : HasEdgeOf(features_df[k])

-----------------------------------------------------------------------------
(* Claims about the binarization and the columns of the Table Merger *)

IsNumber(c) == c.kind = "num"

\* the column of table l went through lines 132-167
ColumnLoaded(l) == loaded[l].status = "ok"

\* every cell of the processed column is 0 or 1, and is 1 exactly when
\* Hit holds of the cell of the file
BinarizedBy(l, Hit(_)) ==
    /\ Len(binarized[l]) \in {0, Len(cells[l])}
    /\ Len(binarized[l]) = 0 => \A k \in 1..Len(cells[l]) : ~IsNumber(cells[l][k])
    /\ \A k \in 1..Len(binarized[l]) :
          /\ binarized[l][k] \in {0, 1}
          /\ binarized[l][k] = 1 <=> Hit(cells[l][k])

Nonzero(c) == IsNumber(c) /\ c.v # 0

BelowThreshold(c) == IsNumber(c) /\ c.v < CNV_THRESHOLD

\* C15: a cell of a binarized mutation column is 1 exactly when the cell of
\* the file is a number other than zero, of either sign; a cell of the
\* binarized copy-number column is 1 exactly when the cell of the file is a
\* number strictly below -0.3; every other cell, an empty one included, is
\* 0.  A column without any number is dropped and has no cell.
C15_Binarization ==
    /\ \A l \in {"mut_dmg", "mut_hot"} :
          ColumnLoaded(l) => BinarizedBy(l, Nonzero)
    /\ ColumnLoaded("cnv") => BinarizedBy("cnv", BelowThreshold)

\* C15 witness: a mutation column with a negative number and an empty cell
\* became 1, 0, and a copy-number column with -0.3 and -0.5 became 0, 1
C15_Witness ==
    /\ mpc = "done"
    /\ cells["mut_dmg"] = <<Num(-5), NaN>>
    /\ binarized["mut_dmg"] = <<1, 0>>
    /\ cells["cnv"] = <<Num(CNV_THRESHOLD), Num(-5)>>
    /\ binarized["cnv"] = <<0, 1>>

RECURSIVE SumLen(_, _, _)
SumLen(cl, tbls, k) ==
    IF k > Len(tbls) THEN 0 ELSE Len(cl[tbls[k]]) + SumLen(cl, tbls, k + 1)

Distinct(seq) == \A j, k \in 1..Len(seq) : seq[j] = seq[k] => j = k

MergeLoopRan == mpc \notin {"off", "start", "loaded"} /\ tables # <<>>

\* C18: the merge loop does not end in the ValueError of a join over
\* columns of the same name; the merged frame has every column of every
\* collected table, under pairwise distinct names, each the name it has in
\* its table or that name with the label of the table appended.
C18_CollisionsRenamed ==
    MergeLoopRan =>
        /\ ~(mpc = "error" /\ merr = "ValueError")
        /\ Len(merged_cols) = SumLen(cols, tables, 1)
        /\ Distinct(merged_cols)
        /\ \A k \in 1..Len(merged_cols) :
              \E t \in Range(tables) : \E c \in Range(cols[t]) :
                 merged_cols[k] \in {c, Suffixed(c, t)}

\* a table has a column with the name a suffix would make
SuffixedNameTaken ==
    \E t, u \in Range(tables) : \E c \in Range(cols[t]) :
        \E e \in Range(cols[u]) : e = Suffixed(c, t)

\* C18 where no table has a column named like a suffixed one
CollisionsRenamedWhenFree == SuffixedNameTaken \/ C18_CollisionsRenamed

-----------------------------------------------------------------------------
(* Claims about the batches of the Correlation Scorer *)

RowSet(rows) == {rows[k] : k \in 1..Len(rows)}

\* the number of batches of range(0, len(biomarker_names), n)
NumBatches(n) == (Len(Biomarkers) + n - 1) \div n

\* the orders in which m batches can be processed
Orders(m) == {p \in [1..m -> 1..m] : \A i, j \in 1..m : p[i] = p[j] => i = j}

\* the triples of the batches of size n, processed and concatenated in the
\* order p
RECURSIVE Concatenated(_, _, _)
Concatenated(n, p, j) ==
    IF j > Len(p) THEN <<>>
    ELSE LET bcols == BatchCols((p[j] - 1) * n, n)
         IN BatchRows(bcols, corr_block(bcols), topk_b)
                \o Concatenated(n, p, j + 1)

\* the triples of all biomarker columns processed in one batch
OneBatch ==
    Renormalize(BatchRows(Biomarkers, corr_block(Biomarkers), topk_b))

\* C16: the set of triples written is the same for every batch size and
\* every order in which the batches are processed and concatenated, and it
\* is the set that one batch of all biomarker columns gives.
C16_BatchingIsInvisible ==
    spc = "done" =>
        LET written == RowSet(out[FEATURES_FILE].rows)
        IN /\ written = RowSet(OneBatch)
           /\ \A n \in 1..(Len(Biomarkers) + 1) :
                 \A p \in Orders(NumBatches(n)) :
                    RowSet(Renormalize(Concatenated(n, p, 1))) = written

\* C16 witness: a run with one column per batch has written the triples of
\* both biomarkers, two of them for the same dependency with different
\* scores
C16_Witness ==
    /\ spc = "done"
    /\ batch = 1
    /\ NumBatches(batch) = Len(Biomarkers)
    /\ \E j, k \in 1..Len(rows_out) :
          /\ rows_out[j].biomarker = "b1"
          /\ rows_out[k].biomarker = "b2"
          /\ rows_out[j].dependency = rows_out[k].dependency
          /\ rows_out[j].score < rows_out[k].score

-----------------------------------------------------------------------------
(* Claims about the order of the stages *)

PartitionerRan == ppc \in {"loaded", "detected", "done"}

BuilderRan == gpc # "off"

\* C17: the Partitioner reads the pickle only after the Graph Builder of
\* the same run has written it whole, and reads that graph; it raises
\* FileNotFoundError when the file is absent and ValueError when the graph
\* has no node, and writes no community table then; after a Graph Builder
\* that failed, it does not start and no community table is written, an
\* earlier pickle in outputs/ notwithstanding.
C17_StageOrdering ==
    /\ (BuilderRan /\ ppc # "off") =>
          /\ gpc = "done"
          /\ out[NET_FILE] = [kind |-> "graph", graph |-> B]
    /\ PartitionerRan =>
          /\ out[NET_FILE] # NoFile
          /\ G = out[NET_FILE].graph
          /\ Nodes(G) # {}
    /\ ppc \notin {"off", "start"} =>
          /\ out[NET_FILE] = NoFile => ppc = "error" /\ perr = "FileNotFoundError"
          /\ (out[NET_FILE] # NoFile /\ Nodes(out[NET_FILE].graph) = {})
                => ppc = "error" /\ perr = "ValueError"
    /\ ppc = "error" => out[COMM_FILE] = NoFile
    /\ gpc = "error" =>
          /\ ppc = "off"
          /\ out[COMM_FILE] = NoFile
          /\ out[NET_FILE] \in {NoFile, [kind |-> "graph", graph |-> StaleGraph]}
    /\ out[COMM_FILE] # NoFile =>
          /\ ppc = "done"
          /\ DOMAIN partition = Nodes(out[NET_FILE].graph)

\* C17 witness: the partition part has written the community table of the
\* graph the build part of the same run pickled over an earlier pickle
C17_Witness ==
    /\ gpc = "done"
    /\ ppc = "done"
    /\ G = B
    /\ G # StaleGraph
    /\ B.edges # {}
    /\ out[COMM_FILE] # NoFile

\* a failed build next to an earlier pickle: the run has ended
C17_FailedBuildWitness ==
    /\ gpc = "error"
    /\ out[NET_FILE] = [kind |-> "graph", graph |-> StaleGraph]
    /\ ppc = "off"

\* the partition part has refused a graph without nodes that the build part
\* pickled
C17_EmptyGraphWitness ==
    /\ gpc = "done"
    /\ Nodes(B) = {}
    /\ ppc = "error"
    /\ perr = "ValueError"

-----------------------------------------------------------------------------
(* Claims about the schema guard of the Graph Builder *)

\* the Graph Builder is past its checks
BuilderBuilds == gpc \in {"nodes", "sparsified", "edges", "done"}

MatrixVersion == out[FEATURES_FILE].kind = "matrix"

EdgeVersion == out[FEATURES_FILE].kind = "edges"

\* C21: in any order of runs of the Merger, the Scorer and the Graph
\* Builder, the Graph Builder gets past its checks only over a
\* processed_features.csv with the three edge columns; over the Merger's
\* feature matrix under that name it ends with an error, and no step of a
\* Graph Builder run over the matrix changes the graph file.
C21_SchemaGuard ==
    /\ [](BuilderBuilds => EdgeVersion)
    /\ []((gpc \notin {"off", "start"} /\ MatrixVersion)
             => (gpc = "error" /\ gerr \in {"ValueError", "FileNotFoundError"}))
    /\ [][(gpc # "off" /\ MatrixVersion) => out'[NET_FILE] = out[NET_FILE]]_vars
    /\ [][out'[NET_FILE] # out[NET_FILE] => (gpc = "edges" /\ EdgeVersion)]_vars

\* C21 witness: the Graph Builder has ended with ValueError over the
\* Merger's feature matrix
C21_Witness ==
    /\ MatrixVersion
    /\ out[DEPS_FILE] # NoFile
    /\ gpc = "error"
    /\ gerr = "ValueError"
    /\ out[NET_FILE] = NoFile

\* the Graph Builder has written a graph over the Scorer's edge list, which
\* replaced the Merger's matrix
C21_GraphWitness ==
    /\ EdgeVersion
    /\ out[MERGED_FILE] # NoFile
    /\ gpc = "done"
    /\ out[NET_FILE] # NoFile

-----------------------------------------------------------------------------
(* Claims about the per-dependency maximum *)

WeightOne(r) == r.score.n = r.score.d

HasWeightOne(rows, d) ==
    \E k \in 1..Len(rows) : rows[k].dependency = d /\ WeightOne(rows[k])

\* every dependency with a row has a row of score exactly 1
MaximumIsOne(rows) ==
    \A k \in 1..Len(rows) : HasWeightOne(rows, rows[k].dependency)

ScorerMaximumIsOne == spc = "done" => MaximumIsOne(out[FEATURES_FILE].rows)

\* C22 as stated: in the Scorer output every dependency with an edge has an
\* edge of score exactly 1, and after the full sparsification every
\* dependency that still has an edge still has one of weight exactly 1.
C22_PerDependencyMaximum ==
    /\ ScorerMaximumIsOne
    /\ Sparsified => MaximumIsOne(features_df)

\* the rows of biomarker b fill its cap and all have weight 1
FullOfWeightOne(rows, b, n) ==
    LET own == {k \in 1..Len(rows) : rows[k].biomarker = b}
    IN /\ Cardinality(own) = n
       /\ \A k \in own : WeightOne(rows[k])

\* C22 amended: in the Scorer output every dependency with an edge has an
\* edge of score exactly 1; after the min-weight filter and the dependency
\* cap every dependency that still has an edge has one of weight exactly 1;
\* after the biomarker cap a dependency that still has an edge has one of
\* weight exactly 1 unless the cap removed it from a biomarker that keeps
\* TOPK_PER_BM edges of weight 1.
C22_MaximumUpToBiomarkerCap ==
    /\ ScorerMaximumIsOne
    /\ Sparsified =>
          LET capped == TopKPerDependency(Strong, topk_dep)
          IN /\ MaximumIsOne(Strong)
             /\ MaximumIsOne(capped)
             /\ \A k \in 1..Len(features_df) :
                   \/ HasWeightOne(features_df, features_df[k].dependency)
                   \/ \E j \in 1..Len(capped) :
                         /\ capped[j].dependency = features_df[k].dependency
                         /\ WeightOne(capped[j])
                         /\ FullOfWeightOne(features_df, capped[j].biomarker, topk_bm)

\* C22 witness: a sparsified frame in which a dependency is left with an
\* edge of weight below 1 only, its edge of weight 1 removed by the
\* biomarker cap
C22_Witness ==
    /\ Sparsified
    /\ ~MaximumIsOne(features_df)
    /\ MaximumIsOne(TopKPerDependency(Strong, topk_dep))

\* the Scorer has written edges of two scores for one dependency
C22_ScorerWitness ==
    /\ spc = "done"
    /\ \E j, k \in 1..Len(out[FEATURES_FILE].rows) :
          /\ out[FEATURES_FILE].rows[j].dependency = out[FEATURES_FILE].rows[k].dependency
          /\ WeightOne(out[FEATURES_FILE].rows[j])
          /\ ~WeightOne(out[FEATURES_FILE].rows[k])

-----------------------------------------------------------------------------
(* Claims about the graph of network_build.py *)

NetGraphBuilt == npc \notin {"off", "start", "error"}

\* the rows network_build.py makes edges of: the file's rows, remapped
NetRows == RemapDependency(out[FEATURES_FILE].rows, out[DEPMAP_FILE])

\* the node sets declared on lines 40-44
NetDeclared ==
    {NetRows[k].biomarker : k \in 1..Len(NetRows)}
        \cup DependencyColumn(out[DEPS_FILE])

HasClassTag(n) == NB.bipartite[n] \in {"biomarker", "dependency"}

\* C24: every node of the graph network_build.py builds is tagged biomarker
\* or dependency, every edge joins a biomarker-tagged node and a
\* dependency-tagged node, and the nodes are the declared ones: no edge
\* creates a node.
C24_NetGraphIsTaggedBipartite ==
    NetGraphBuilt =>
        /\ \A n \in Nodes(NB) : HasClassTag(n)
        /\ \A e \in NB.edges :
              \E u, v \in e.ends :
                 /\ NB.bipartite[u] = "biomarker"
                 /\ NB.bipartite[v] = "dependency"
        /\ Nodes(NB) = NetDeclared

\* the part of C24 that holds: a node without tag is the dependency of a
\* row, not listed in dependencies.csv and not a biomarker of any row, and
\* every other node is a declared one
NetUntaggedAreUnlistedDependencies ==
    NetGraphBuilt =>
        \A n \in Nodes(NB) :
            IF HasClassTag(n) THEN n \in NetDeclared
            ELSE /\ n \notin NetDeclared
                 /\ \E k \in 1..Len(NetRows) : NetRows[k].dependency = n

-----------------------------------------------------------------------------
(* Claims about the second normalization *)

\* the filters of lines 48-53 removed all rows of a dependency or none
WholeGroupsFiltered ==
    \A j, k \in 1..Len(out[FEATURES_FILE].rows) :
        LET r == out[FEATURES_FILE].rows[j]
            q == out[FEATURES_FILE].rows[k]
        IN r.dependency = q.dependency =>
              ((r.dependency \in valid_deps /\ RPositive(r.score))
                  <=> (q.dependency \in valid_deps /\ RPositive(q.score)))

\* C23: when the filters removed all rows of a dependency or none, the
\* normalization of lines 70-72 gives every row of the Scorer's edge list
\* that is left the score it had.
C23_SecondNormalizationChangesNothing ==
    (gpc = "nodes" /\ WholeGroupsFiltered) =>
        LET again == NormalizePerDependency(features_df)
        IN /\ Len(again) = Len(features_df)
           /\ \A k \in 1..Len(features_df) :
                 /\ again[k].biomarker = features_df[k].biomarker
                 /\ again[k].dependency = features_df[k].dependency
                 /\ REq(again[k].score, features_df[k].score)

\* C23 witness: the filters removed the rows of one dependency and left
\* those of another, among them a row of score below 1
C23_Witness ==
    /\ gpc = "nodes"
    /\ WholeGroupsFiltered
    /\ Len(features_df) < Len(out[FEATURES_FILE].rows)
    /\ \E k \in 1..Len(features_df) : ~WeightOne(features_df[k])
====
